---- MODULE Spec2Model ----
(***************************************************************************)
(* Model of the landmark streaming pipeline of the Expressora server:      *)
(* ExpressoraTranslationServicer.StreamLandmarks (expressora_server.py)    *)
(* and HandsDownDetector (landmark_buffer.py).                             *)
(*                                                                         *)
(* Units.  Landmark coordinates are integers in 1/1000 of the normalised   *)
(* image unit (0.9 is 900, 0.001 is 1, 0.08 is 80, 0.01 is 10).            *)
(* Confidences are integers in 1/100 (0.90 is 90, 1.0 is 100).  Times are  *)
(* integers in 1/10 s (1.5 s is 15).                                       *)
(* Python's 0-based index k of a list is index k+1 of the sequence here.   *)
(***************************************************************************)
EXTENDS Integers, Sequences, FiniteSets, TLC

VARIABLES
    hands_down_start,          \* HandsDownDetector.hands_down_start (servicer-wide)
    recent_gloss_detections,   \* servicer._recent_gloss_detections
    previous_hand_landmarks,   \* servicer._previous_hand_landmarks
    last_tone_event,           \* servicer._last_tone_event
    last_gloss_yielded,        \* servicer._last_gloss_yielded
    now,                       \* the wall clock read by time.time()
    pc,                        \* per connection: where its StreamLandmarks call is
    frame_count,               \* per connection: local frame_count
    gloss_label,               \* per connection: local gloss_label (may be unbound)
    gloss_confidence,          \* per connection: local gloss_confidence
    last,                      \* per connection: what the last frame processed did
    trail,                     \* per connection: hand classification of the last 3 frames
    streak,                    \* per connection: run of accepted predictions from an empty buffer
    after_reject,              \* per connection: appends since the last rejected window
    alone,                     \* per connection: the same frames run on a private state
    dwell,                     \* per connection: its run of low-wrist frames and its HANDS_DOWN events
    watch,                     \* the frames the detector has checked since its last reset
    gate,                      \* per connection: the GLOSS and TONE events around its last frame
    story,                     \* per connection: its validated snapshot and the last event it was sent
    probe,                     \* the detector driven on its own: its last call and what it did
    call                       \* one call of TranslationService.translate

vars == <<hands_down_start, recent_gloss_detections, previous_hand_landmarks,
          last_tone_event, last_gloss_yielded, now, pc, frame_count,
          gloss_label, gloss_confidence, last, trail, streak, after_reject, alone,
          dwell, watch, gate, story, probe, call>>

-----------------------------------------------------------------------------
(* Python values *)

None == "None"          \* Python's None, for a label
Absent == <<>>          \* Python's None, for a time or a landmark list: Absent or <<value>>
Some(v) == <<v>>
Unbound == "Unbound"    \* a local variable that was never assigned

\* What a classifier call gives: a (label, confidence) pair, or an exception
Output(label, confidence) == [label |-> label, confidence |-> confidence, raises |-> FALSE]
Raises == [label |-> None, confidence |-> 0, raises |-> TRUE]
\* The classifier was not called on this frame
NotInvoked == [label |-> "NotInvoked", confidence |-> 0, raises |-> FALSE]

Abs(x) == IF x < 0 THEN -x ELSE x
Max(a, b) == IF a >= b THEN a ELSE b
Min(a, b) == IF a <= b THEN a ELSE b

-----------------------------------------------------------------------------
(* Program constants *)

CONFIDENCE_THRESHOLD == 90
TONE_THRESHOLD == 80
threshold_y == 900
duration_threshold == 15
min_consistent_frames == 3
min_movement_threshold == 10
MIN_NON_ZERO == 15
NON_ZERO_EPS == 1
MIN_SPAN == 80
HAND_SIZE == 63
BUFFER_KEEP == 5
HANDS_DOWN_CONFIDENCE == 100
STOP_AFTER_ATTEMPT == 2

-----------------------------------------------------------------------------
(* Bounds of the model *)

MaxFrames == 4          \* frames read by the connection of Spec
MaxDebounceFrames == 6  \* frames read by the connection of SpecDebounce
MaxValidFrames == 3     \* frames read by the connection of SpecValid
MaxSeqFrames == 3       \* frames read by each connection of SpecSeq
MaxConcFrames == 2      \* frames read by each connection of SpecConc
MaxDwellFrames == 4     \* frames read by the connection of SpecDwell
MaxSharedFrames == 3    \* frames read by each connection of SpecShared
MaxToneFrames == 5      \* frames read by each connection of SpecTone
MaxOrderFrames == 4     \* frames read by the connection of SpecOrder
MaxIndepFrames == 4     \* frames read by the connection of SpecIndep
MaxHandoverFrames == 3  \* frames read by each connection of SpecHandover
MaxDetectorCalls == 4   \* calls of check and reset in SpecDetector
MaxRingFrames == 6      \* frames read by the calls of SpecRing, all together
MaxFailFrames == 5      \* frames read by the connection of SpecFail
Tick == 8               \* time between two frames (0.8 s)

Conns == {1, 2}

-----------------------------------------------------------------------------
(* Hand blocks: concrete 63-value blocks the frames are built from *)

\* wrist (wx, wy, 0) at Python 0..2, middle fingertip (tx, ty, 0) at Python
\* 36..38, the first n other coordinates v, all the rest 0.
MkHand(wx, wy, tx, ty, n, v) ==
    [k \in 1..HAND_SIZE |->
        IF k = 1 THEN wx
        ELSE IF k = 2 THEN wy
        ELSE IF k = 37 THEN tx
        ELSE IF k = 38 THEN ty
        ELSE IF k = 3 \/ k = 39 THEN 0
        ELSE IF k <= 3 + n THEN v
        ELSE 0]

\* every landmark moved by d along x
ShiftX(h, d) == [k \in 1..Len(h) |-> IF k % 3 = 1 THEN h[k] + d ELSE h[k]]

HandOpen   == MkHand(500, 500, 500, 300, 20, 400)  \* dense (24), span 200
HandMoved  == ShiftX(HandOpen, 20)                 \* displaced by 0.020 per landmark
HandGhost  == MkHand(500, 500, 500, 550, 20, 400)  \* dense (24), span 50
HandEdge   == MkHand(500, 500, 500, 420, 11, 400)  \* exactly 15 non-zero, span exactly 80
HandSparse == MkHand(500, 500, 500, 300, 10, 400)  \* 14 non-zero, span 200
HandFaint  == MkHand(500, 500, 500, 300, 20, 1)    \* fill of 0.001: 4 non-zero, span 200
HandDown   == MkHand(500, 950, 500, 750, 20, 400)  \* dense, span 200, wrist y 0.95
WristOnly  == <<500, 950, 0>>                      \* 3 values: less than one hand

-----------------------------------------------------------------------------
(* HandsDownDetector (landmark_buffer.py) *)

\* HandsDownDetector.check: [ret |-> the value returned, start |-> hands_down_start after]
WristY_FirstOnly(hand_landmarks) == hand_landmarks[2]

\* lines 124-130: the wrist y the detector compares with the threshold
WristY(hand_landmarks) ==
    LET wrist_y == hand_landmarks[2]
    IN  IF Len(hand_landmarks) >= HAND_SIZE
        THEN Max(wrist_y, IF Len(hand_landmarks) > 64 THEN hand_landmarks[65] ELSE wrist_y)
        ELSE wrist_y

\* a detector that clears its timer when it reports a detection
check_AutoReset(start, hand_landmarks, current_time) ==
    IF Len(hand_landmarks) < 3
    THEN [ret |-> FALSE, start |-> Absent]
    ELSE IF WristY(hand_landmarks) > threshold_y
         THEN IF start = Absent
              THEN [ret |-> FALSE, start |-> Some(current_time)]
              ELSE IF current_time - start[1] > duration_threshold
                   THEN [ret |-> TRUE, start |-> Absent]
                   ELSE [ret |-> FALSE, start |-> start]
         ELSE [ret |-> FALSE, start |-> Absent]

\* a detector that keeps its timer through a frame with the wrist up
check_KeepsTimer(start, hand_landmarks, current_time) ==
    IF Len(hand_landmarks) < 3
    THEN [ret |-> FALSE, start |-> Absent]
    ELSE IF WristY(hand_landmarks) > threshold_y
         THEN IF start = Absent
              THEN [ret |-> FALSE, start |-> Some(current_time)]
              ELSE [ret |-> current_time - start[1] > duration_threshold, start |-> start]
         ELSE [ret |-> FALSE, start |-> start]

\* a detector that waits twice the duration threshold
check_Slow(start, hand_landmarks, current_time) ==
    IF Len(hand_landmarks) < 3
    THEN [ret |-> FALSE, start |-> Absent]
    ELSE IF WristY(hand_landmarks) > threshold_y
         THEN IF start = Absent
              THEN [ret |-> FALSE, start |-> Some(current_time)]
              ELSE [ret |-> current_time - start[1] > 2 * duration_threshold, start |-> start]
         ELSE [ret |-> FALSE, start |-> Absent]

check(start, hand_landmarks, current_time) ==
    IF Len(hand_landmarks) < 3
    THEN [ret |-> FALSE, start |-> Absent]
    ELSE IF WristY(hand_landmarks) > threshold_y
         THEN IF start = Absent
              THEN [ret |-> FALSE, start |-> Some(current_time)]
              ELSE [ret |-> current_time - start[1] > duration_threshold, start |-> start]
         ELSE [ret |-> FALSE, start |-> Absent]

-----------------------------------------------------------------------------
(* Hand validation (expressora_server.py, StreamLandmarks lines 122-233) *)

hand_count(hand_landmarks) == Len(hand_landmarks) \div HAND_SIZE

\* hand_data = hand_landmarks[i*63 : i*63+63]; hand_data[k] for Python index k
HandAt(hand_landmarks, i, k) == hand_landmarks[i * HAND_SIZE + k + 1]

\* line 141: sum(1 for x in hand_data if abs(x) > 0.001), for hand i
non_zero_count(hand_landmarks, i) ==
    Cardinality({k \in 0..(HAND_SIZE - 1) :
                    Abs(HandAt(hand_landmarks, i, k)) > NON_ZERO_EPS})

\* a density loop that lets a block with 14 values through
valid_hand_detected_Lenient(hand_landmarks) ==
    \E i \in 0..(hand_count(hand_landmarks) - 1) :
        non_zero_count(hand_landmarks, i) >= MIN_NON_ZERO - 1

\* the density loop, lines 132-144
valid_hand_detected(hand_landmarks) ==
    \E i \in 0..(hand_count(hand_landmarks) - 1) :
        non_zero_count(hand_landmarks, i) >= MIN_NON_ZERO

\* floor of the square root
ISqrt(n) == CHOOSE r \in 0..1800 : r * r <= n /\ (r + 1) * (r + 1) > n

\* np.linalg.norm of a difference (dx, dy, dz): exact when the difference is
\* along one axis, as between the blocks used here, and rounded down otherwise
Norm3(dx, dy, dz) ==
    IF dy = 0 /\ dz = 0 THEN Abs(dx)
    ELSE IF dx = 0 /\ dz = 0 THEN Abs(dy)
    ELSE IF dx = 0 /\ dy = 0 THEN Abs(dz)
    ELSE ISqrt(dx * dx + dy * dy + dz * dz)

\* _calculate_hand_span of hand i: wrist (Python 0..2) to middle fingertip
\* (Python 36..38); a chunk of the loop of line 158 always has 63 >= 39 values
calculate_hand_span(hand_landmarks, i) ==
    Norm3(HandAt(hand_landmarks, i, 0) - HandAt(hand_landmarks, i, 36),
          HandAt(hand_landmarks, i, 1) - HandAt(hand_landmarks, i, 37),
          HandAt(hand_landmarks, i, 2) - HandAt(hand_landmarks, i, 38))

\* a span loop with the bar at 0.05
valid_span_found_Loose(hand_landmarks) ==
    \E i \in 0..(hand_count(hand_landmarks) - 1) :
        calculate_hand_span(hand_landmarks, i) >= MIN_SPAN - 30

\* the span loop, lines 155-170: over every hand block of the frame
valid_span_found(hand_landmarks) ==
    \E i \in 0..(hand_count(hand_landmarks) - 1) :
        calculate_hand_span(hand_landmarks, i) >= MIN_SPAN

\* lines 184-202: the hands and triplets compared
ComparedHands(prev, hand_landmarks) ==
    0..(Min(hand_count(hand_landmarks), Len(prev) \div HAND_SIZE) - 1)

RECURSIVE SumDisplacement(_, _, _)
SumDisplacement(prev, hand_landmarks, k) ==
    IF k = 0 THEN 0
    ELSE LET j == 3 * (k - 1)
         IN  Norm3(hand_landmarks[j + 1] - prev[j + 1],
                   hand_landmarks[j + 2] - prev[j + 2],
                   hand_landmarks[j + 3] - prev[j + 3])
             + SumDisplacement(prev, hand_landmarks, k - 1)

\* a motion gate whose average is compared with 0 instead of the threshold
hands_moved_NoThreshold(previous, hand_landmarks) ==
    IF previous = Absent THEN TRUE
    ELSE LET prev == previous[1]
             landmark_count == 21 * Cardinality(ComparedHands(prev, hand_landmarks))
             total_displacement == SumDisplacement(prev, hand_landmarks, landmark_count)
         IN  IF landmark_count > 0
             THEN total_displacement >= 0
             ELSE TRUE

\* lines 181-213: avg_displacement >= threshold, as total >= threshold * count
hands_moved(previous, hand_landmarks) ==
    IF previous = Absent THEN TRUE
    ELSE LET prev == previous[1]
             landmark_count == 21 * Cardinality(ComparedHands(prev, hand_landmarks))
             total_displacement == SumDisplacement(prev, hand_landmarks, landmark_count)
         IN  IF landmark_count > 0
             THEN total_displacement >= min_movement_threshold * landmark_count
             ELSE TRUE

-----------------------------------------------------------------------------
(* Events *)

GlossEvent(label, confidence) == [type |-> "GLOSS", label |-> label, confidence |-> confidence]
ToneEvent(label, confidence) == [type |-> "TONE", label |-> label, confidence |-> confidence]
HandsDownEvent == [type |-> "HANDS_DOWN", label |-> "hands_down", confidence |-> HANDS_DOWN_CONFIDENCE]

\* Python truthiness of a label
Truthy(label) == label # None /\ label # ""

-----------------------------------------------------------------------------
(* One frame of StreamLandmarks (lines 91-290), stage by stage.            *)
(* A stage maps a context x to a context: the servicer's fields (hds, buf, *)
(* prev, tone, yielded), the handler's locals (label, conf), the events    *)
(* yielded so far on this frame, the status of the handler, and a report   *)
(* of what the frame did.  status is "running", "INTERNAL" (the except     *)
(* clause of line 292 ran) or "aborted" (the response generator was closed *)
(* while suspended at a yield: the RPC was cancelled).                     *)
(***************************************************************************)

\* the context at the start of a frame
Enter(hds, buf, prev, tone, yielded, label, conf) ==
    [hds |-> hds, buf |-> buf, prev |-> prev, tone |-> tone, yielded |-> yielded,
     label |-> label, conf |-> conf,
     events |-> <<>>, status |-> "running",
     checked |-> FALSE, hand_count |-> 0, dense |-> FALSE, wide |-> FALSE,
     moved |-> FALSE, hand_out |-> NotInvoked, face_out |-> NotInvoked,
     appended |-> FALSE, buf_after |-> <<>>]

\* lines 105-120: the hands-down check, its event and the reset after it
StageHandsDown(x, hands, current_time, abort) ==
    LET r == check(x.hds, hands, current_time)
    IN  IF r.ret
        THEN IF abort = "HANDS_DOWN"
             THEN [x EXCEPT !.events = Append(@, HandsDownEvent),
                            !.hds = r.start, !.status = "aborted"]
             ELSE [x EXCEPT !.events = Append(@, HandsDownEvent), !.hds = Absent]
        ELSE [x EXCEPT !.hds = r.start]

\* a validation that forgets the snapshot on a frame without hands
StageValidate_ForgetsOnNoHands(x, hands, hand_out) ==
    IF x.status # "running" THEN x
    ELSE IF hand_count(hands) = 0
    THEN [x EXCEPT !.checked = TRUE, !.prev = Absent]
    ELSE IF ~valid_hand_detected(hands)
    THEN [x EXCEPT !.checked = TRUE, !.hand_count = hand_count(hands),
                   !.label = None, !.conf = 0, !.prev = Absent]
    ELSE IF ~valid_span_found(hands)
    THEN [x EXCEPT !.checked = TRUE, !.hand_count = hand_count(hands), !.dense = TRUE,
                   !.label = None, !.conf = 0, !.prev = Absent]
    ELSE LET moved == hands_moved(x.prev, hands)
             y == [x EXCEPT !.checked = TRUE, !.hand_count = hand_count(hands),
                            !.dense = TRUE, !.wide = TRUE, !.moved = moved,
                            !.prev = Some(hands)]
         IN  IF ~moved
             THEN [y EXCEPT !.label = None, !.conf = 0]
             ELSE IF hand_out.raises
             THEN [y EXCEPT !.hand_out = hand_out, !.status = "INTERNAL"]
             ELSE [y EXCEPT !.hand_out = hand_out,
                            !.label = hand_out.label, !.conf = hand_out.confidence]

\* lines 122-233: presence, density, span and motion checks, and classify_hands
StageValidate(x, hands, hand_out) ==
    IF x.status # "running" THEN x
    ELSE IF hand_count(hands) = 0
    THEN [x EXCEPT !.checked = TRUE]                \* line 128: pass
    ELSE IF ~valid_hand_detected(hands)
    THEN [x EXCEPT !.checked = TRUE, !.hand_count = hand_count(hands),
                   !.label = None, !.conf = 0, !.prev = Absent]
    ELSE IF ~valid_span_found(hands)
    THEN [x EXCEPT !.checked = TRUE, !.hand_count = hand_count(hands), !.dense = TRUE,
                   !.label = None, !.conf = 0, !.prev = Absent]
    ELSE LET moved == hands_moved(x.prev, hands)
             y == [x EXCEPT !.checked = TRUE, !.hand_count = hand_count(hands),
                            !.dense = TRUE, !.wide = TRUE, !.moved = moved,
                            !.prev = Some(hands)]
         IN  IF ~moved
             THEN [y EXCEPT !.label = None, !.conf = 0]
             ELSE IF hand_out.raises
             THEN [y EXCEPT !.hand_out = hand_out, !.status = "INTERNAL"]
             ELSE [y EXCEPT !.hand_out = hand_out,
                            !.label = hand_out.label, !.conf = hand_out.confidence]

\* a buffer that drops the entry just appended when it is full
AppendDetection_DropsNewest(buf, entry) ==
    LET b == Append(buf, entry)
    IN  IF Len(b) > BUFFER_KEEP THEN SubSeq(b, 1, BUFFER_KEEP) ELSE b

\* lines 239-243: append, then keep the last 5
AppendDetection(buf, entry) ==
    LET b == Append(buf, entry)
    IN  IF Len(b) > BUFFER_KEEP THEN Tail(b) ELSE b

\* line 247: the labels of the last min_consistent_frames entries
recent_labels(buf) ==
    [k \in 1..min_consistent_frames |-> buf[Len(buf) - min_consistent_frames + k].label]

\* line 249: len(set(recent_labels)) == 1
AllSame(labels) == Cardinality({labels[k] : k \in 1..Len(labels)}) = 1

\* a pipeline that keeps the entries of an inconsistent window
AfterInconsistent_Keeps(buf) == buf

\* line 267: the buffer after an inconsistent window
AfterInconsistent(buf) == <<>>

\* a gloss step that restarts the hands-down dwell when a sign is recognised
StageGloss_RestartsDwell(x, abort) ==
    IF x.status # "running" THEN x
    ELSE IF x.label = Unbound
    THEN [x EXCEPT !.status = "INTERNAL"]           \* UnboundLocalError at line 236
    ELSE IF ~(Truthy(x.label) /\ x.conf >= CONFIDENCE_THRESHOLD)
    THEN x
    ELSE LET b == AppendDetection(x.buf, [label |-> x.label, confidence |-> x.conf])
             y == [x EXCEPT !.appended = TRUE, !.buf_after = b]
         IN  IF Len(b) < min_consistent_frames
             THEN [y EXCEPT !.buf = b]
             ELSE IF AllSame(recent_labels(b))
             THEN LET e == GlossEvent(recent_labels(b)[1], x.conf)
                  IN  IF abort = "GLOSS"
                      THEN [y EXCEPT !.events = Append(@, e), !.buf = b,
                                     !.status = "aborted"]
                      ELSE [y EXCEPT !.events = Append(@, e), !.buf = <<>>,
                                     !.yielded = TRUE, !.hds = Absent]
             ELSE [y EXCEPT !.buf = AfterInconsistent(b)]

\* lines 235-271: the gloss buffer and the GLOSS event
StageGloss(x, abort) ==
    IF x.status # "running" THEN x
    ELSE IF x.label = Unbound
    THEN [x EXCEPT !.status = "INTERNAL"]           \* UnboundLocalError at line 236
    ELSE IF ~(Truthy(x.label) /\ x.conf >= CONFIDENCE_THRESHOLD)
    THEN x
    ELSE LET b == AppendDetection(x.buf, [label |-> x.label, confidence |-> x.conf])
             y == [x EXCEPT !.appended = TRUE, !.buf_after = b]
         IN  IF Len(b) < min_consistent_frames
             THEN [y EXCEPT !.buf = b]
             ELSE IF AllSame(recent_labels(b))
             THEN LET e == GlossEvent(recent_labels(b)[1], x.conf)
                  IN  IF abort = "GLOSS"
                      THEN [y EXCEPT !.events = Append(@, e), !.buf = b,
                                     !.status = "aborted"]
                      ELSE [y EXCEPT !.events = Append(@, e), !.buf = <<>>,
                                     !.yielded = TRUE]
             ELSE [y EXCEPT !.buf = AfterInconsistent(b)]

\* a tone step that leaves the flag set
StageTone_NoReset(x, face_out, abort) ==
    IF x.status # "running" \/ ~x.yielded THEN x
    ELSE IF face_out.raises
    THEN [x EXCEPT !.face_out = face_out, !.status = "INTERNAL"]
    ELSE LET y == [x EXCEPT !.face_out = face_out]
         IN  IF Truthy(face_out.label) /\ face_out.confidence >= TONE_THRESHOLD
                /\ x.tone # face_out.label
             THEN LET e == ToneEvent(face_out.label, face_out.confidence)
                  IN  IF abort = "TONE"
                      THEN [y EXCEPT !.events = Append(@, e), !.status = "aborted"]
                      ELSE [y EXCEPT !.events = Append(@, e), !.tone = face_out.label]
             ELSE y

\* lines 273-290: classify_face after a GLOSS, the TONE event, the flag reset
StageTone(x, face_out, abort) ==
    IF x.status # "running" \/ ~x.yielded THEN x
    ELSE IF face_out.raises
    THEN [x EXCEPT !.face_out = face_out, !.status = "INTERNAL"]
    ELSE LET y == [x EXCEPT !.face_out = face_out]
         IN  IF Truthy(face_out.label) /\ face_out.confidence >= TONE_THRESHOLD
                /\ x.tone # face_out.label
             THEN LET e == ToneEvent(face_out.label, face_out.confidence)
                  IN  IF abort = "TONE"
                      THEN [y EXCEPT !.events = Append(@, e), !.status = "aborted"]
                      ELSE [y EXCEPT !.events = Append(@, e),
                                     !.tone = face_out.label, !.yielded = FALSE]
             ELSE [y EXCEPT !.yielded = FALSE]

\* F applied to the value of x (one stage after another, as the statements of
\* the loop body run one after another)
Then(x, F(_)) == CHOOSE r \in {F(v) : v \in {x}} : TRUE

\* a loop body that checks the hands-down detector after the gloss step
Process_GlossFirst(x, hands, current_time, hand_out, face_out, abort) ==
    Then(Then(Then(StageValidate(x, hands, hand_out),
                   LAMBDA v : StageGloss(v, abort)),
              LAMBDA v : StageHandsDown(v, hands, current_time, abort)),
         LAMBDA v : StageTone(v, face_out, abort))

\* the body of the loop for one frame
Process(x, hands, current_time, hand_out, face_out, abort) ==
    Then(Then(Then(StageHandsDown(x, hands, current_time, abort),
                   LAMBDA v : StageValidate(v, hands, hand_out)),
              LAMBDA v : StageGloss(v, abort)),
         LAMBDA v : StageTone(v, face_out, abort))

-----------------------------------------------------------------------------------------------------------------------------------------------------
(* Inputs: the frames a client sends and what the classifier answers *)

\* every frame of the model
Frames ==
    { <<>>, WristOnly, HandOpen, HandMoved, HandGhost, HandEdge, HandSparse, HandFaint,
      HandGhost \o HandSparse, HandSparse \o HandFaint, HandDown }

\* the frames of Spec: no hands, two valid hands that differ, a ghost hand
FramesGloss == { <<>>, HandOpen, HandMoved, HandGhost }

\* classify_hands: no label, a label below the threshold, labels at and above it, an exception
HandOutputs ==
    { Output(None, 0), Output("A", 85), Output("A", 90), Output("A", 95),
      Output("B", 95), Raises }

\* classify_face: no label, a label below 0.80, labels at and above it, an exception
FaceOutputs ==
    { Output(None, 0), Output("/question", 75), Output("/question", 80),
      Output("/exclamation", 85), Raises }

\* the yield at which the RPC is cancelled, if it is reached
Aborts == {"none", "HANDS_DOWN", "GLOSS", "TONE"}

-----------------------------------------------------------------------------
(* State of a connection's handler and what is recorded about it *)

\* a servicer right after __init__ (lines 40-55), seen by a handler that has
\* assigned none of its locals
Fresh == Enter(Absent, <<>>, Absent, None, FALSE, Unbound, 0)

\* the context of connection c on the servicer's state
Shared(c) ==
    Enter(hands_down_start, recent_gloss_detections, previous_hand_landmarks,
          last_tone_event, last_gloss_yielded, gloss_label[c], gloss_confidence[c])

\* the context of connection c on its private copy
Private(c) ==
    IF alone[c].status = "running"
    THEN Enter(alone[c].hds, alone[c].buf, alone[c].prev, alone[c].tone,
               alone[c].yielded, alone[c].label, alone[c].conf)
    ELSE [alone[c] EXCEPT !.events = <<>>]

NoFrame ==
    [seen |-> FALSE, hands |-> <<>>, events |-> <<>>, status |-> "running",
     checked |-> FALSE, hand_count |-> 0, dense |-> FALSE, wide |-> FALSE,
     moved |-> FALSE, hand_out |-> NotInvoked, face_out |-> NotInvoked,
     appended |-> FALSE, buf_after |-> <<>>,
     buf_before |-> <<>>, buf_end |-> <<>>, prev_before |-> Absent, prev_end |-> Absent]

\* what a frame did: the frame, the context it ended in, the buffer and the
\* snapshot before it
Report(x, hands, buf_before, prev_before) ==
    [seen |-> TRUE, hands |-> hands, events |-> x.events, status |-> x.status,
     checked |-> x.checked, hand_count |-> x.hand_count, dense |-> x.dense,
     wide |-> x.wide, moved |-> x.moved, hand_out |-> x.hand_out,
     face_out |-> x.face_out, appended |-> x.appended, buf_after |-> x.buf_after,
     buf_before |-> buf_before, buf_end |-> x.buf,
     prev_before |-> prev_before, prev_end |-> x.prev]

\* an accepted hand prediction: the classifier was invoked and gave a label
\* with confidence >= 0.90
Accepted(out) ==
    /\ out # NotInvoked
    /\ ~out.raises
    /\ Truthy(out.label)
    /\ out.confidence >= CONFIDENCE_THRESHOLD

HasEvent(events, type) == \E k \in 1..Len(events) : events[k].type = type
CountType(events, type) == Cardinality({k \in 1..Len(events) : events[k].type = type})

LastN(s, n) == IF Len(s) <= n THEN s ELSE SubSeq(s, Len(s) - n + 1, Len(s))

NoStreak == [preds |-> <<>>, gloss |-> 0]

\* The run of accepted predictions that started on an empty gloss buffer, up
\* to three of them, and the GLOSS events emitted since its first frame.
NextStreak(s, buf_before, x) ==
    LET g == CountType(x.events, "GLOSS")
        open == Len(s.preds) > 0 /\ Len(s.preds) < 3
    IN  IF Accepted(x.hand_out)
        THEN IF open
             THEN [preds |-> Append(s.preds, x.hand_out), gloss |-> s.gloss + g]
             ELSE IF buf_before = <<>>
             THEN [preds |-> <<x.hand_out>>, gloss |-> g]
             ELSE NoStreak
        ELSE IF open
             THEN [s EXCEPT !.gloss = @ + g]
             ELSE s

\* Accepted predictions since the last window that was rejected as
\* inconsistent: Absent before any rejection, else <<n>>, n counted up to 3.
NextAfterReject(r, x) ==
    IF x.appended /\ Len(x.buf_after) >= min_consistent_frames
       /\ ~AllSame(recent_labels(x.buf_after))
    THEN Some(0)
    ELSE IF Accepted(x.hand_out) /\ r # Absent
    THEN Some(Min(r[1] + 1, 3))
    ELSE r

\* The wrist of a hand present in the frame is below the line y = 0.9
LowFrame(hands) ==
    /\ Len(hands) >= 3
    /\ \/ hands[2] > 900
       \/ Len(hands) >= 126 /\ hands[65] > 900

NoDwell ==
    [since |-> Absent, armed |-> Absent, fired |-> 0, at |-> 0,
     fire |-> FALSE, prev_fire |-> FALSE, fire_at |-> Absent, prev_fire_at |-> Absent]

\* The low-wrist frames of one connection: since, the time of the first frame
\* of the current run of low frames; armed, the time of the first low frame of
\* the run that no HANDS_DOWN has followed yet; fired, the HANDS_DOWN events
\* of the run; at, the time of the last frame; fire and fire_at, whether and
\* when HANDS_DOWN was emitted; prev_fire and prev_fire_at, the same one frame
\* and one emission earlier.
NextDwell(d, hands, t, events) ==
    LET low == LowFrame(hands)
        fire == HasEvent(events, "HANDS_DOWN")
        n == IF fire THEN 1 ELSE 0
    IN  [since |-> IF ~low THEN Absent ELSE IF d.since = Absent THEN Some(t) ELSE d.since,
         armed |-> IF ~low \/ fire THEN Absent
                   ELSE IF d.armed = Absent THEN Some(t) ELSE d.armed,
         fired |-> IF low /\ d.since # Absent THEN d.fired + n ELSE n,
         at |-> t,
         fire |-> fire,
         prev_fire |-> d.fire,
         fire_at |-> IF fire THEN Some(t) ELSE d.fire_at,
         prev_fire_at |-> IF fire THEN d.fire_at ELSE d.prev_fire_at]

\* The last frame of connection c stopped between the GLOSS event and the
\* end of the tone step: classify_face raised, or the call was cancelled at
\* the TONE yield
Leftover(c) ==
    \/ last[c].status = "INTERNAL" /\ last[c].face_out.raises
    \/ last[c].status = "aborted" /\ HasEvent(last[c].events, "TONE")

\* the label of the first event of a type (None if there is none)
LabelOf(events, type) ==
    IF HasEvent(events, type)
    THEN events[CHOOSE k \in 1..Len(events) : events[k].type = type].label
    ELSE None

NoGate ==
    [gloss |-> FALSE, gloss_prev |-> FALSE, leftover_before |-> FALSE,
     tone |-> None, tone_repeat |-> FALSE, tone_before |-> None]

\* Around the last frame of a connection: gloss, the frame emitted a GLOSS;
\* gloss_prev, the frame before it on the connection did; leftover_before, a
\* stream on the servicer had stopped inside the tone step on the frame
\* processed just before this one; tone, the label of the latest TONE of the
\* connection; tone_repeat, that TONE had the label of the TONE before it on
\* the connection; tone_before, _last_tone_event when the frame arrived.
NextGate(g, x, leftover, tone_before) ==
    LET t == LabelOf(x.events, "TONE")
    IN  [gloss |-> HasEvent(x.events, "GLOSS"),
         gloss_prev |-> g.gloss,
         leftover_before |-> leftover,
         tone |-> IF t # None THEN t ELSE g.tone,
         tone_repeat |-> IF t # None THEN t = g.tone ELSE g.tone_repeat,
         tone_before |-> tone_before]

NoStory ==
    [own |-> Absent, own_before |-> Absent, tail |-> "none", tail_before |-> "none",
     resting |-> FALSE, rested |-> FALSE]

\* own: the hand block of the connection's latest frame that passed the density
\* and span checks, absent once a later frame of the connection failed one of
\* them; tail: the type of the last event sent on the connection; resting: the
\* connection's latest frame had hand count 0; rested: its latest frame passed
\* the density and span checks and the frame before it had hand count 0.
NextStory(s, x, hands) ==
    [own |-> IF x.wide THEN Some(hands)
             ELSE IF x.checked /\ x.hand_count > 0 THEN Absent
             ELSE s.own,
     own_before |-> s.own,
     tail |-> IF x.events = <<>> THEN s.tail ELSE x.events[Len(x.events)].type,
     tail_before |-> s.tail,
     resting |-> hand_count(hands) = 0,
     rested |-> x.wide /\ s.resting]

\* op: the detector's method called last; ret, hands, at, start_before: what
\* check returned, on which block, when, and the timer it found; held: a check
\* has returned True and every call since was a check of a low wrist.
\* no call of translate is under way
NoCall ==
    [pc |-> "idle", has_model |-> FALSE, glosses |-> <<>>, tone |-> "",
     attempts |-> 0, cloud_calls |-> 0, succeeded |-> FALSE, result |-> Absent]

NoProbe ==
    [op |-> "none", calls |-> 0, ret |-> FALSE, hands |-> <<>>, at |-> 0,
     start_before |-> Absent, held |-> FALSE, held_before |-> FALSE]

NoWatch == [armed |-> Absent, detections |-> 0, tone |-> None]

\* What the detector was shown, whatever the connection: armed, the time of
\* the first low frame checked since the last reset, detection or frame that
\* was not low; detections, the HANDS_DOWN detections so far (counted up to 2);
\* tone, the label of the latest TONE event of the servicer.
NextWatch(w, hands, t, events) ==
    LET fire == HasEvent(events, "HANDS_DOWN")
    IN  [armed |-> IF ~LowFrame(hands) \/ fire THEN Absent
                   ELSE IF w.armed = Absent THEN Some(t) ELSE w.armed,
         detections |-> IF fire THEN Min(w.detections + 1, 2) ELSE w.detections,
         tone |-> IF HasEvent(events, "TONE") THEN LabelOf(events, "TONE") ELSE w.tone]

-----------------------------------------------------------------------------
(* Init and the actions *)

Init ==
    /\ hands_down_start = Absent
    /\ recent_gloss_detections = <<>>
    /\ previous_hand_landmarks = Absent
    /\ last_tone_event = None
    /\ last_gloss_yielded = FALSE
    /\ now = 0
    /\ pc = [c \in Conns |-> "idle"]
    /\ frame_count = [c \in Conns |-> 0]
    /\ gloss_label = [c \in Conns |-> Unbound]
    /\ gloss_confidence = [c \in Conns |-> 0]
    /\ last = [c \in Conns |-> NoFrame]
    /\ trail = [c \in Conns |-> <<>>]
    /\ streak = [c \in Conns |-> NoStreak]
    /\ after_reject = [c \in Conns |-> Absent]
    /\ alone = [c \in Conns |-> Fresh]
    /\ dwell = [c \in Conns |-> NoDwell]
    /\ watch = NoWatch
    /\ gate = [c \in Conns |-> NoGate]
    /\ story = [c \in Conns |-> NoStory]
    /\ probe = NoProbe
    /\ call = NoCall

\* StreamLandmarks is called (lines 84-90): the detector is reset, nothing else
OpenStream(c) ==
    /\ pc[c] = "idle"
    /\ pc' = [pc EXCEPT ![c] = "reading"]
    /\ hands_down_start' = Absent
    /\ frame_count' = [frame_count EXCEPT ![c] = 0]
    /\ watch' = [watch EXCEPT !.armed = Absent]
    /\ UNCHANGED <<recent_gloss_detections, previous_hand_landmarks, last_tone_event,
                   last_gloss_yielded, now, gloss_label, gloss_confidence,
                   last, trail, streak, after_reject, alone, dwell, gate, story, probe, call>>

\* a handler that goes on reading after the except clause
StatusPc_Resume(status) ==
    IF status = "aborted" THEN "cancelled" ELSE "reading"

StatusPc(status) ==
    IF status = "running" THEN "reading"
    ELSE IF status = "INTERNAL" THEN "INTERNAL"
    ELSE "cancelled"

\* One iteration of the loop of line 91 on connection c: the frame hands
\* arrives dt after the last one, the classifier answers hand_out and
\* face_out if it is called, and the RPC is cancelled at the yield abort
Frame(c, hands, dt, hand_out, face_out, abort) ==
    /\ pc[c] = "reading"
    /\ \E x \in {Process(Shared(c), hands, now + dt, hand_out, face_out, abort)} :
       \E a \in {IF alone[c].status = "running"
                 THEN Process(Private(c), hands, now + dt, hand_out, face_out, abort)
                 ELSE Private(c)} :
        /\ now' = now + dt
        /\ hands_down_start' = x.hds
        /\ recent_gloss_detections' = x.buf
        /\ previous_hand_landmarks' = x.prev
        /\ last_tone_event' = x.tone
        /\ last_gloss_yielded' = x.yielded
        /\ pc' = [pc EXCEPT ![c] = StatusPc(x.status)]
        /\ frame_count' = [frame_count EXCEPT ![c] = @ + 1]
        /\ gloss_label' = [gloss_label EXCEPT ![c] = x.label]
        /\ gloss_confidence' = [gloss_confidence EXCEPT ![c] = x.conf]
        /\ last' = [last EXCEPT ![c] = Report(x, hands, recent_gloss_detections,
                                               previous_hand_landmarks)]
        /\ trail' = [trail EXCEPT ![c] = LastN(Append(@, x.hand_out), 3)]
        /\ streak' = [streak EXCEPT ![c] = NextStreak(@, recent_gloss_detections, x)]
        /\ after_reject' = [after_reject EXCEPT ![c] = NextAfterReject(@, x)]
        /\ alone' = [alone EXCEPT ![c] = a]
        /\ dwell' = [dwell EXCEPT ![c] = NextDwell(@, hands, now + dt, x.events)]
        /\ watch' = NextWatch(watch, hands, now + dt, x.events)
        /\ gate' = [gate EXCEPT ![c] = NextGate(@, x,
                                        \E d \in Conns : Leftover(d) /\ dwell[d].at = now,
                                        last_tone_event)]
        /\ story' = [story EXCEPT ![c] = NextStory(@, x, hands)]
        /\ UNCHANGED <<probe, call>>

\* The classifier answers only when it is called (on the servicer's state or on
\* the private copy), and a cancellation takes effect only at a yield reached.
Classifies(x, hands) ==
    StageValidate(x, hands, Output(None, 0)).hand_out # NotInvoked

HandChoices(c, hands, hand_outs) ==
    IF Classifies(Shared(c), hands) \/ Classifies(Private(c), hands)
    THEN hand_outs ELSE {NotInvoked}

AsksTone(x, hands, hand_out) ==
    Then(StageValidate(x, hands, hand_out), LAMBDA v : StageGloss(v, "none")).yielded

FaceChoices(c, hands, hand_out, face_outs) ==
    IF AsksTone(Shared(c), hands, hand_out) \/ AsksTone(Private(c), hands, hand_out)
    THEN face_outs ELSE {NotInvoked}

AbortChoices(c, hands, dt, hand_out, face_out, aborts) ==
    {"none"} \cup
    {ab \in aborts :
        HasEvent(Process(Shared(c), hands, now + dt, hand_out, face_out, "none").events, ab)}

\* The next frame of connection c, of at most limit frames
ReadFrame(c, limit, frames, dt, hand_outs, face_outs, aborts) ==
    /\ pc[c] = "reading"
    /\ frame_count[c] < limit
    /\ \E hands \in frames :
        \E hand_out \in HandChoices(c, hands, hand_outs) :
            \E face_out \in FaceChoices(c, hands, hand_out, face_outs) :
                \E abort \in AbortChoices(c, hands, dt, hand_out, face_out, aborts) :
                    Frame(c, hands, dt, hand_out, face_out, abort)

\* The next frame of connection c, arriving after one of the gaps dts
ReadFrameAt(c, limit, frames, dts, hand_outs, face_outs, aborts) ==
    \E dt \in dts : ReadFrame(c, limit, frames, dt, hand_outs, face_outs, aborts)

\* The request iterator ends (line 91): the handler returns
\* a handler that flushes its pending detection when the input ends
EndOfInput_Flush(c) ==
    /\ pc[c] = "reading"
    /\ pc' = [pc EXCEPT ![c] = "closed"]
    /\ last' = [last EXCEPT ![c].events =
                   IF recent_gloss_detections # <<>>
                   THEN Append(@, GlossEvent(recent_gloss_detections[1].label,
                                             recent_gloss_detections[1].confidence))
                   ELSE IF hands_down_start # None
                        THEN Append(@, HandsDownEvent) ELSE @]
    /\ UNCHANGED <<hands_down_start, recent_gloss_detections, previous_hand_landmarks,
                   last_tone_event, last_gloss_yielded, now, frame_count,
                   gloss_label, gloss_confidence, trail, streak, after_reject,
                   alone, dwell, watch, gate, story, probe, call>>

EndOfInput(c) ==
    /\ pc[c] = "reading"
    /\ pc' = [pc EXCEPT ![c] = "closed"]
    /\ UNCHANGED <<hands_down_start, recent_gloss_detections, previous_hand_landmarks,
                   last_tone_event, last_gloss_yielded, now, frame_count,
                   gloss_label, gloss_confidence, last, trail, streak, after_reject,
                   alone, dwell, watch, gate, story, probe, call>>

\* One connection on a servicer that has served no other
Next ==
    \/ OpenStream(1)
    \/ ReadFrame(1, MaxFrames, FramesGloss, Tick, HandOutputs, FaceOutputs, Aborts)
    \/ EndOfInput(1)

Spec == Init /\ [][Next]_vars

\* One connection, fewer inputs, longer runs: the gloss buffer over six frames
FramesDebounce == { <<>>, HandOpen, HandMoved }
HandOutputsDebounce == { Output("A", 85), Output("A", 95), Output("B", 95) }

NextDebounce ==
    \/ OpenStream(1)
    \/ ReadFrame(1, MaxDebounceFrames, FramesDebounce, Tick, HandOutputsDebounce,
                 {Output(None, 0)}, {"none"})
    \/ EndOfInput(1)

SpecDebounce == Init /\ [][NextDebounce]_vars

\* One connection, every frame of the model, short runs: the validation of a frame
NextValid ==
    \/ OpenStream(1)
    \/ ReadFrame(1, MaxValidFrames, Frames, Tick, {Output("A", 95), Raises},
                 {Output(None, 0)}, {"none", "HANDS_DOWN"})
    \/ EndOfInput(1)

SpecValid == Init /\ [][NextValid]_vars

\* Connections served one after the other by the same servicer
NoneReading == \A d \in Conns : pc[d] # "reading"

NextSeq ==
    \E c \in Conns :
        \/ NoneReading /\ OpenStream(c)
        \/ ReadFrame(c, MaxSeqFrames, FramesDebounce, Tick, {Output("A", 95), Raises},
                     {Output("/question", 85), Raises}, Aborts)
        \/ EndOfInput(c)

SpecSeq == Init /\ [][NextSeq]_vars

\* Connections whose handlers run on the thread pool of serve (line 354), taking
\* turns frame by frame
NextConc ==
    \E c \in Conns :
        \/ OpenStream(c)
        \/ ReadFrame(c, MaxConcFrames, FramesDebounce, Tick, {Output("A", 95)},
                     {Output("/question", 85)}, {"none"})
        \/ EndOfInput(c)

SpecConc == Init /\ [][NextConc]_vars

\* The client of a finished stream calls StreamLandmarks again: the new call
\* has its own locals (lines 74-90) and finds the servicer as the last one left it
Redial(c) ==
    /\ pc[c] \in {"closed", "cancelled", "INTERNAL"}
    /\ pc' = [pc EXCEPT ![c] = "idle"]
    /\ frame_count' = [frame_count EXCEPT ![c] = 0]
    /\ gloss_label' = [gloss_label EXCEPT ![c] = Unbound]
    /\ gloss_confidence' = [gloss_confidence EXCEPT ![c] = 0]
    /\ last' = [last EXCEPT ![c] = NoFrame]
    /\ trail' = [trail EXCEPT ![c] = <<>>]
    /\ streak' = [streak EXCEPT ![c] = NoStreak]
    /\ after_reject' = [after_reject EXCEPT ![c] = Absent]
    /\ alone' = [alone EXCEPT ![c] = Fresh]
    /\ dwell' = [dwell EXCEPT ![c] = NoDwell]
    /\ gate' = [gate EXCEPT ![c] = NoGate]
    /\ story' = [story EXCEPT ![c] = NoStory]
    /\ UNCHANGED <<hands_down_start, recent_gloss_detections, previous_hand_landmarks,
                   last_tone_event, last_gloss_yielded, now, watch, probe, call>>

\* One client that calls again and again, each call cancelled or not at its
\* GLOSS, with predictions of one label and two confidences
HandOutputsRing == { Output("A", 95), Output("A", 90) }

NextRing ==
    \/ OpenStream(1)
    \/ /\ now < MaxRingFrames * Tick
       /\ ReadFrame(1, MaxRingFrames, {HandOpen, HandMoved}, Tick, HandOutputsRing,
                    {Output(None, 0)}, {"none", "GLOSS"})
    \/ EndOfInput(1)
    \/ Redial(1)

SpecRing == Init /\ [][NextRing]_vars

-----------------------------------------------------------------------------
(* HandsDownDetector driven on its own: check and reset called in any order *)

\* blocks of 0, 2, 3, 63, 64, 65 and 126 values, wrists above, on and below
\* the threshold
FramesDetector ==
    { <<>>, <<500, 950>>, WristOnly, <<500, 900, 0>>, HandOpen, HandDown,
      HandOpen \o <<500>>, HandOpen \o <<500, 950>>,
      HandOpen \o HandDown, HandDown \o HandOpen, HandOpen \o HandMoved }

IsDown(hand_landmarks) ==
    Len(hand_landmarks) >= 3 /\ WristY(hand_landmarks) > threshold_y

DetectorCheck(hand_landmarks, dt) ==
    /\ probe.calls < MaxDetectorCalls
    /\ \E r \in {check(hands_down_start, hand_landmarks, now + dt)} :
        /\ now' = now + dt
        /\ hands_down_start' = r.start
        /\ probe' = [op |-> "check", calls |-> probe.calls + 1, ret |-> r.ret,
                     hands |-> hand_landmarks, at |-> now + dt,
                     start_before |-> hands_down_start,
                     held |-> r.ret \/ (probe.held /\ IsDown(hand_landmarks)),
                     held_before |-> probe.held]
    /\ UNCHANGED <<recent_gloss_detections, previous_hand_landmarks, last_tone_event,
                   last_gloss_yielded, pc, frame_count, gloss_label, gloss_confidence,
                   last, trail, streak, after_reject, alone, dwell, watch, gate, story,
                   call>>

DetectorReset ==
    /\ probe.calls < MaxDetectorCalls
    /\ probe.op = "check"
    /\ hands_down_start' = Absent
    /\ probe' = [probe EXCEPT !.op = "reset", !.calls = @ + 1, !.held = FALSE,
                              !.held_before = probe.held]
    /\ UNCHANGED <<recent_gloss_detections, previous_hand_landmarks, last_tone_event,
                   last_gloss_yielded, now, pc, frame_count, gloss_label,
                   gloss_confidence, last, trail, streak, after_reject, alone, dwell,
                   watch, gate, story, call>>

NextDetector ==
    \/ \E hand_landmarks \in FramesDetector, dt \in {Tick, 2 * Tick} :
           DetectorCheck(hand_landmarks, dt)
    \/ DetectorReset

SpecDetector == Init /\ [][NextDetector]_vars

-----------------------------------------------------------------------------
(* TranslationService (translation_service.py)                             *)
(* A sentence is its words and its final punctuation; "" is EmptyText.     *)

EmptyText == [words |-> <<>>, end |-> ""]

Vocabulary == {"EAT", "YOU", "hello"}

\* str.lower and str.capitalize on the words of the vocabulary
Lower(w) == IF w = "EAT" THEN "eat" ELSE IF w = "YOU" THEN "you" ELSE w
Capitalize(w) ==
    IF w = "eat" THEN "Eat" ELSE IF w = "you" THEN "You"
    ELSE IF w = "hello" THEN "Hello" ELSE w

\* lines 112-152, for the words of the vocabulary: "eat" has no entry
word_map(w) == IF w = "hello" THEN Some("Kumusta") ELSE IF w = "you" THEN Some("ikaw") ELSE Absent

\* lines 103-172
simple_filipino_translation(glosses, tone) ==
    IF glosses = <<>> THEN EmptyText
    ELSE [words |-> [k \in 1..Len(glosses) |->
                        IF word_map(Lower(glosses[k])) # Absent
                        THEN word_map(Lower(glosses[k]))[1] ELSE glosses[k]],
          end |-> IF tone = "/question" THEN "?"
                  ELSE IF tone = "/exclamation" THEN "!" ELSE "."]

\* lines 174-208: <<english, filipino>>
call_local_rules(glosses, tone) ==
    IF glosses = <<>> THEN <<EmptyText, EmptyText>>
    ELSE LET text == [k \in 1..Len(glosses) |-> Lower(glosses[k])]
             english ==
                 IF tone = "/question"
                 THEN [words |-> <<"Are", "you">> \o text, end |-> "?"]
                 ELSE IF tone = "/negative"
                 THEN [words |-> <<Capitalize(text[1]), "not">> \o Tail(text), end |-> "."]
                 ELSE [words |-> <<Capitalize(text[1])>> \o Tail(text), end |-> "."]
         IN  <<english, simple_filipino_translation(glosses, tone)>>

\* What generate_content can do: answer in the two-language format, answer in
\* some other format, or fail
Responses == {"bilingual", "freeform", "error"}

\* lines 55-101, one attempt: [ok |-> it returned, english, filipino]
call_gemini(has_model, glosses, tone, response) ==
    IF ~has_model \/ response = "error"
    THEN [ok |-> FALSE, english |-> EmptyText, filipino |-> EmptyText]
    ELSE IF response = "bilingual"
    THEN [ok |-> TRUE, english |-> [words |-> <<"response-english">>, end |-> ""],
          filipino |-> [words |-> <<"response-filipino">>, end |-> ""]]
    ELSE [ok |-> TRUE, english |-> [words |-> <<"response-text">>, end |-> ""],
          filipino |-> simple_filipino_translation(glosses, tone)]

\* a handler that lets the error of the retry decorator through
Caught_NotRetryError(error) == error # "RetryError"

\* line 227: except (RetryError, Exception)
Caught(error) == error \in {"RetryError", "Exception"}

Tones == {"/question", "/negative", "/exclamation", "/neutral"}
GlossLists == { <<>>, <<"EAT">>, <<"EAT", "YOU">>, <<"hello", "YOU">> }

\* translate is called (line 210) on a service built with or without a model
TranslateCall(has_model, glosses, tone) ==
    /\ call.pc = "idle"
    /\ call' = [NoCall EXCEPT !.pc = "calling", !.has_model = has_model,
                              !.glosses = glosses, !.tone = tone]
    /\ UNCHANGED <<hands_down_start, recent_gloss_detections, previous_hand_landmarks,
                   last_tone_event, last_gloss_yielded, now, pc, frame_count,
                   gloss_label, gloss_confidence, last, trail, streak, after_reject,
                   alone, dwell, watch, gate, story, probe>>

\* One attempt of _call_gemini under the retry decorator of line 40, and what
\* translate does with its outcome (lines 223-231)
GeminiAttempt(response) ==
    /\ call.pc = "calling"
    /\ \E r \in {call_gemini(call.has_model, call.glosses, call.tone, response)} :
       \E n \in {call.attempts + 1} :
       \E g \in {call.cloud_calls + (IF call.has_model THEN 1 ELSE 0)} :
        call' =
            IF r.ok
            THEN [call EXCEPT !.pc = "returned", !.attempts = n, !.cloud_calls = g,
                              !.succeeded = TRUE,
                              !.result = Some([english |-> r.english,
                                               filipino |-> r.filipino,
                                               tone |-> call.tone,
                                               source |-> "Cloud (Gemini)"])]
            ELSE IF n < STOP_AFTER_ATTEMPT
            THEN [call EXCEPT !.attempts = n, !.cloud_calls = g]
            ELSE IF Caught("RetryError")
            THEN [call EXCEPT !.pc = "returned", !.attempts = n, !.cloud_calls = g,
                              !.result = Some([english |-> call_local_rules(call.glosses, call.tone)[1],
                                               filipino |-> call_local_rules(call.glosses, call.tone)[2],
                                               tone |-> call.tone,
                                               source |-> "Offline (Local)"])]
            ELSE [call EXCEPT !.pc = "raised", !.attempts = n, !.cloud_calls = g]
    /\ UNCHANGED <<hands_down_start, recent_gloss_detections, previous_hand_landmarks,
                   last_tone_event, last_gloss_yielded, now, pc, frame_count,
                   gloss_label, gloss_confidence, last, trail, streak, after_reject,
                   alone, dwell, watch, gate, story, probe>>

NextTranslate ==
    \/ \E has_model \in BOOLEAN, glosses \in GlossLists, tone \in Tones :
           TranslateCall(has_model, glosses, tone)
    \/ \E response \in Responses : GeminiAttempt(response)

SpecTranslate == Init /\ [][NextTranslate]_vars

-----------------------------------------------------------------------------
(* Properties *)

\* The hand blocks of a frame and their two measures, on the raw values
Blocks(hands) == 1..(Len(hands) \div 63)
BlockValue(hands, i, k) == hands[(i - 1) * 63 + k]
DenseBlock(hands, i) ==
    Cardinality({k \in 1..63 : BlockValue(hands, i, k) > 1 \/ BlockValue(hands, i, k) < -1}) >= 15
SpanSquared(hands, i) ==
    (BlockValue(hands, i, 1) - BlockValue(hands, i, 37)) * (BlockValue(hands, i, 1) - BlockValue(hands, i, 37))
    + (BlockValue(hands, i, 2) - BlockValue(hands, i, 38)) * (BlockValue(hands, i, 2) - BlockValue(hands, i, 38))
    + (BlockValue(hands, i, 3) - BlockValue(hands, i, 39)) * (BlockValue(hands, i, 3) - BlockValue(hands, i, 39))
WideBlock(hands, i) == SpanSquared(hands, i) >= 80 * 80

\* One connection, frames with the wrist low or not, at gaps of 0.5, 0.6 and
\* 1.6 s: the hands-down timer
FramesDwell == { HandDown, HandOpen, WristOnly }
Gaps == { 5, 6, 16 }

NextDwellOnly ==
    \/ OpenStream(1)
    \/ ReadFrameAt(1, MaxDwellFrames, FramesDwell, Gaps, {Output(None, 0)},
                   {Output(None, 0)}, {"none", "HANDS_DOWN"})
    \/ EndOfInput(1)

SpecDwell == Init /\ [][NextDwellOnly]_vars

\* Two connections on the thread pool of serve, taking turns frame by frame,
\* every frame 1.6 s after the one before
NextShared ==
    \E c \in Conns :
        \/ OpenStream(c)
        \/ ReadFrameAt(c, MaxSharedFrames, {HandDown, HandOpen}, {16},
                       {Output("A", 95)}, {Output("/question", 85)}, {"none"})
        \/ EndOfInput(c)

SpecShared == Init /\ [][NextShared]_vars

\* Two connections taking turns, each holding its own steady hand: the tone
\* labels of three GLOSS events
FaceOutputsTone == { Output("/question", 85), Output("/exclamation", 85) }

NextTone ==
    \/ \E c \in Conns : OpenStream(c)
    \/ ReadFrame(1, MaxToneFrames, {HandOpen}, Tick, {Output("A", 95)},
                 FaceOutputsTone, {"none"})
    \/ ReadFrame(2, MaxToneFrames, {HandMoved}, Tick, {Output("A", 95)},
                 FaceOutputsTone, {"none"})

SpecTone == Init /\ [][NextTone]_vars

\* One connection whose frames can trigger the three events at once: low
\* wrists, accepted predictions, a tone, and a cancellation at any yield
NextOrder ==
    \/ OpenStream(1)
    \/ ReadFrame(1, MaxOrderFrames, {HandDown, WristOnly, HandOpen}, Tick,
                 {Output("A", 95)}, {Output("/question", 85)}, Aborts)
    \/ EndOfInput(1)

SpecOrder == Init /\ [][NextOrder]_vars

\* One connection whose frames raise or lower the wrist at short and long
\* gaps, with classifiers that answer or decline and never fail
FramesIndep == { <<>>, HandDown, WristOnly, HandOpen }
HandOutputsIndep == { Output("A", 95), Output(None, 0) }
FaceOutputsIndep == { Output("/question", 85), Output(None, 0) }

NextIndep ==
    \/ OpenStream(1)
    \/ ReadFrameAt(1, MaxIndepFrames, FramesIndep, {Tick, 2 * Tick}, HandOutputsIndep,
                   FaceOutputsIndep, {"none"})
    \/ EndOfInput(1)

SpecIndep == Init /\ [][NextIndep]_vars

\* Connections served one after the other, each holding a steady or a moving
\* hand, whose streams can stop inside the tone step
NextHandover ==
    \E c \in Conns :
        \/ NoneReading /\ OpenStream(c)
        \/ ReadFrame(c, MaxHandoverFrames, {HandOpen, HandMoved}, Tick, {Output("A", 95)},
                     {Output("/question", 85), Raises}, {"none", "TONE"})
        \/ EndOfInput(c)

SpecHandover == Init /\ [][NextHandover]_vars

\* One connection with a hand on every frame, whose classifiers may fail on
\* any call
NextFail ==
    \/ OpenStream(1)
    \/ ReadFrame(1, MaxFailFrames, {HandOpen, HandMoved}, Tick, {Output("A", 95), Raises},
                 {Output("/question", 85), Raises}, {"none"})
    \/ EndOfInput(1)

SpecFail == Init /\ [][NextFail]_vars

\* C1: from an empty gloss buffer, the third of three successive accepted hand
\* predictions with one label L emits the only GLOSS of the three frames, with
\* label L and the third prediction's confidence, and leaves the buffer empty.
C1_ThirdAcceptedPredictionEmitsTheOnlyGloss ==
    \A c \in Conns :
        (/\ pc[c] = "reading"
         /\ Accepted(last[c].hand_out)
         /\ Len(streak[c].preds) = 3
         /\ \A k \in 1..3 : streak[c].preds[k].label = streak[c].preds[1].label)
        => /\ streak[c].gloss = 1
           /\ \E k \in 1..Len(last[c].events) :
                last[c].events[k] = GlossEvent(streak[c].preds[1].label,
                                               streak[c].preds[3].confidence)
           /\ recent_gloss_detections = <<>>

\* C2: a frame with no hand block, or one that fails the density check, the span
\* check or the motion gate, emits no GLOSS and no TONE.
C2_NoGlossNoToneOnRejectedFrame ==
    \A c \in Conns :
        (last[c].seen /\ ~(last[c].dense /\ last[c].wide /\ last[c].moved))
        => /\ ~HasEvent(last[c].events, "GLOSS")
           /\ ~HasEvent(last[c].events, "TONE")

\* C3: a frame whose hands block is shorter than one hand never ends the stream
\* with INTERNAL, at any position in the stream, the first frame included
\* (a failure of classify_face on that frame set aside).
C3_ShortHandsBlockIsNoError ==
    \A c \in Conns :
        (last[c].seen /\ Len(last[c].hands) < 63 /\ ~last[c].face_out.raises)
        => /\ last[c].status # "INTERNAL"
           /\ pc[c] # "INTERNAL"

\* C4: when a connection starts reading frames, the gloss buffer is empty, the
\* previous hand landmarks, the last tone label and the hands-down start time
\* are absent and the gloss-just-emitted flag is false.
C4_StateEmptyAtStreamStart ==
    \A c \in Conns :
        (pc[c] = "reading" /\ frame_count[c] = 0)
        => /\ recent_gloss_detections = <<>>
           /\ previous_hand_landmarks = Absent
           /\ last_tone_event = None
           /\ last_gloss_yielded = FALSE
           /\ hands_down_start = Absent

\* C5: with interleaved connections, the events a frame emits on a connection
\* are the events it emits when that connection runs alone on its own state.
C5_EventsAsIfAlone ==
    \A c \in Conns :
        last[c].seen => last[c].events = alone[c].events

\* C6: a GLOSS with label L is emitted on a frame only if that frame and the two
\* frames before it on the connection each gave a hand classification of L with
\* confidence >= 0.90.
C6_GlossNeedsThreeConsecutiveFrames ==
    \A c \in Conns :
        \A k \in 1..Len(last[c].events) :
            last[c].events[k].type = "GLOSS"
            => /\ Len(trail[c]) = 3
               /\ \A j \in 1..3 :
                    /\ Accepted(trail[c][j])
                    /\ trail[c][j].label = last[c].events[k].label

\* C7: an append that leaves the buffer with at least 3 entries whose last 3
\* labels are not all equal emits no GLOSS and empties the buffer; an append
\* that leaves fewer than 3 entries emits no GLOSS; and a GLOSS after such a
\* rejection has at least 3 accepted predictions since the rejection.
C7_InconsistentWindowRestartsAccumulation ==
    \A c \in Conns :
        /\ (/\ last[c].appended
            /\ Len(last[c].buf_after) >= 3
            /\ \E i, j \in (Len(last[c].buf_after) - 2)..Len(last[c].buf_after) :
                    last[c].buf_after[i].label # last[c].buf_after[j].label)
           => /\ ~HasEvent(last[c].events, "GLOSS")
              /\ last[c].buf_end = <<>>
        /\ (last[c].appended /\ Len(last[c].buf_after) < 3)
           => ~HasEvent(last[c].events, "GLOSS")
        /\ (HasEvent(last[c].events, "GLOSS") /\ after_reject[c] # Absent)
           => after_reject[c][1] >= 3

\* C8: on a frame that reaches validation with every hand block holding fewer
\* than 15 values above 0.001 in magnitude, classify_hands is not invoked and
\* _previous_hand_landmarks is absent afterwards.
C8_SparseFrameIsNoValidHand ==
    \A c \in Conns :
        (/\ last[c].checked
         /\ Blocks(last[c].hands) # {}
         /\ \A i \in Blocks(last[c].hands) : ~DenseBlock(last[c].hands, i))
        => /\ last[c].hand_out = NotInvoked
           /\ last[c].prev_end = Absent
           /\ previous_hand_landmarks = Absent \/ pc[c] # "reading"

\* a two-hand frame of sparse blocks was validated right after a valid frame
C8_SparseFrameWitness ==
    \E c \in Conns :
        /\ last[c].checked
        /\ last[c].hands = HandSparse \o HandFaint
        /\ last[c].prev_before # Absent
        /\ last[c].prev_end = Absent
        /\ last[c].hand_out = NotInvoked

\* C9: on a frame that reaches validation with every hand block spanning less
\* than 0.08 from wrist to middle fingertip, classify_hands is not invoked and
\* _previous_hand_landmarks is absent afterwards, dense blocks included.
C9_CollapsedFrameIsNoValidHand ==
    \A c \in Conns :
        (/\ last[c].checked
         /\ Blocks(last[c].hands) # {}
         /\ \A i \in Blocks(last[c].hands) : ~WideBlock(last[c].hands, i))
        => /\ last[c].hand_out = NotInvoked
           /\ last[c].prev_end = Absent
           /\ previous_hand_landmarks = Absent \/ pc[c] # "reading"

\* a dense hand collapsed to a span of 0.05 was validated right after a valid frame
C9_CollapsedFrameWitness ==
    \E c \in Conns :
        /\ last[c].checked
        /\ last[c].hands = HandGhost
        /\ last[c].dense
        /\ DenseBlock(last[c].hands, 1)
        /\ last[c].prev_before # Absent
        /\ last[c].prev_end = Absent
        /\ last[c].hand_out = NotInvoked

\* C10: a frame is accepted as holding a valid hand only if one single hand
\* block passes both the density check and the span check.
C10_AcceptedFrameHasDenseWideBlock ==
    \A c \in Conns :
        (last[c].seen /\ last[c].wide)
        => \E i \in Blocks(last[c].hands) :
                DenseBlock(last[c].hands, i) /\ WideBlock(last[c].hands, i)

\* C11: a frame that passes the density and span checks and equals the stored
\* previous snapshot is static: classify_hands is not invoked and the gloss
\* buffer is left as it was.
C11_IdenticalFrameIsStatic ==
    \A c \in Conns :
        (/\ last[c].checked
         /\ last[c].dense
         /\ last[c].wide
         /\ last[c].prev_before = Some(last[c].hands))
        => /\ ~last[c].moved
           /\ last[c].hand_out = NotInvoked
           /\ ~last[c].appended
           /\ last[c].buf_end = last[c].buf_before

\* a valid frame was repeated while the buffer held an entry
C11_IdenticalFrameWitness ==
    \E c \in Conns :
        /\ last[c].checked
        /\ last[c].wide
        /\ last[c].prev_before = Some(last[c].hands)
        /\ last[c].buf_before # <<>>
        /\ last[c].buf_end = last[c].buf_before
        /\ last[c].hand_out = NotInvoked

\* C12: HANDS_DOWN is emitted on a frame only if the wrist was low on every
\* frame of the connection over more than 1.5 s ending at that frame; a run of
\* low frames that has lasted more than 1.5 s and at most 3.0 s has emitted
\* exactly one HANDS_DOWN, and one that has lasted at most 1.5 s has emitted none.
C12_HandsDownNeedsOwnDwell ==
    \A c \in Conns :
        /\ dwell[c].fire
           => /\ dwell[c].since # Absent
              /\ dwell[c].at - dwell[c].since[1] > 15
        /\ dwell[c].since # Absent
           => /\ (dwell[c].at - dwell[c].since[1] <= 15) => dwell[c].fired = 0
              /\ (dwell[c].at - dwell[c].since[1] \in 16..30) => dwell[c].fired = 1

\* C13: the detector is not latched off by a detection: whenever low frames
\* have been checked without a break since the first frame after the last
\* reset, for more than 1.5 s, HANDS_DOWN has been detected again.
C13_DwellAfterResetDetectsAgain ==
    watch.armed # Absent => now - watch.armed[1] <= 15

\* a second HANDS_DOWN was detected on a connection
C13_SecondDetectionWitness ==
    \E c \in Conns :
        /\ watch.detections = 2
        /\ dwell[c].fire
        /\ dwell[c].prev_fire_at # Absent
        /\ dwell[c].fire_at # dwell[c].prev_fire_at

\* C14: HANDS_DOWN is never emitted on two consecutive frames of a connection,
\* two HANDS_DOWN events of a connection are more than 1.5 s apart, and the
\* detector is reset when the frame that emitted HANDS_DOWN is done.
C14_NoRefireOnNextFrame ==
    \A c \in Conns :
        /\ ~(dwell[c].fire /\ dwell[c].prev_fire)
        /\ (dwell[c].fire /\ dwell[c].prev_fire_at # Absent)
           => dwell[c].at - dwell[c].prev_fire_at[1] > 15
        /\ (dwell[c].fire /\ dwell[c].at = now /\ pc[c] = "reading")
           => hands_down_start = Absent

C16_NoRepeatedToneLabel ==
    /\ \A c \in Conns :
        /\ ~gate[c].tone_repeat
        /\ HasEvent(last[c].events, "TONE")
           => LabelOf(last[c].events, "TONE") # gate[c].tone_before
    /\ (\A c \in Conns : pc[c] # "cancelled") => last_tone_event = watch.tone

\* the place of an event type in the order of the loop body
Rank(type) == IF type = "HANDS_DOWN" THEN 1 ELSE IF type = "GLOSS" THEN 2 ELSE 3

\* C17: the events of one frame are at most one HANDS_DOWN, then at most one
\* GLOSS, then at most one TONE, and they are the events of the last frame
\* read: the connection has read as many frames as it has processed.
C17_OneEventPerTypeInOrder ==
    \A c \in Conns :
        /\ \A i, j \in 1..Len(last[c].events) :
                i < j => Rank(last[c].events[i].type) < Rank(last[c].events[j].type)
        /\ \A i \in 1..Len(last[c].events) :
                last[c].events[i].type \in {"HANDS_DOWN", "GLOSS", "TONE"}
        /\ last[c].seen <=> frame_count[c] > 0

\* one frame emitted HANDS_DOWN, GLOSS and TONE
C17_ThreeEventsWitness ==
    \E c \in Conns :
        /\ Len(last[c].events) = 3
        /\ last[c].events[1].type = "HANDS_DOWN"
        /\ last[c].events[2].type = "GLOSS"
        /\ last[c].events[3].type = "TONE"

\* C18: when classify_hands or classify_face raises on a frame, the stream of
\* the connection ends with INTERNAL on that frame, nothing is emitted on the
\* frame after the call that raised, and from then on the connection reads no
\* frame and emits no event.
C18_ClassifierFailureEndsStream ==
    /\ [](\A c \in Conns :
            /\ (last[c].hand_out.raises \/ last[c].face_out.raises)
               => /\ pc[c] = "INTERNAL"
                  /\ last[c].status = "INTERNAL"
                  /\ ~HasEvent(last[c].events, "TONE")
            /\ last[c].hand_out.raises
               => /\ ~HasEvent(last[c].events, "GLOSS")
                  /\ last[c].face_out = NotInvoked)
    /\ [][\A c \in Conns :
            pc[c] = "INTERNAL"
            => /\ pc'[c] = "INTERNAL"
               /\ frame_count'[c] = frame_count[c]
               /\ last'[c] = last[c]]_vars

\* classify_face raised right after a GLOSS was emitted
C18_FaceFailureWitness ==
    \E c \in Conns :
        /\ last[c].face_out.raises
        /\ HasEvent(last[c].events, "GLOSS")
        /\ pc[c] = "INTERNAL"
        /\ frame_count[c] < MaxFailFrames

\* C19: the end of a connection's input closes its stream and emits nothing:
\* the events of the connection are those of its last frame, whatever the gloss
\* buffer and the hands-down timer hold, and a closed stream reads and emits
\* nothing more.
C19_EndOfInputEmitsNothing ==
    [][\A c \in Conns :
         /\ (pc[c] = "reading" /\ pc'[c] = "closed")
            => /\ last'[c] = last[c]
               /\ frame_count'[c] = frame_count[c]
         /\ (pc[c] = "closed" /\ pc'[c] = "closed")
            => /\ last'[c] = last[c]
               /\ frame_count'[c] = frame_count[c]]_vars

\* a stream closed on one or two pending detections and a running timer
C19_PendingAtClosureWitness ==
    \E c \in Conns :
        /\ pc[c] = "closed"
        /\ Len(recent_gloss_detections) \in {1, 2}
        /\ hands_down_start # None
        /\ last[c].seen

\* C20: the hands-down check runs on every frame read and is a function of the
\* raw hand blocks and the arrival times alone: a frame emits HANDS_DOWN exactly
\* when check says so on the detector's timer, the frame and its time, and the
\* timer after the frame is the one check (and the reset after a detection)
\* leaves, whatever the classifiers answered; a stream starts on a cleared timer.
C20_HandsDownIndependentOfClassifiers ==
    [][\A c \in Conns :
         /\ frame_count'[c] = frame_count[c] + 1
            => \E r \in {check(hands_down_start, last'[c].hands, now')} :
                 /\ HasEvent(last'[c].events, "HANDS_DOWN") <=> r.ret
                 /\ hands_down_start' = IF r.ret THEN Absent ELSE r.start
         /\ (pc[c] = "idle" /\ pc'[c] = "reading") => hands_down_start' = Absent
         /\ (pc[c] = "reading" /\ pc'[c] = "closed")
            => hands_down_start' = hands_down_start]_vars

\* a frame that emits HANDS_DOWN and a GLOSS of the classifier's label
C20_HandsDownWithGlossWitness ==
    \E c \in Conns :
        /\ HasEvent(last[c].events, "HANDS_DOWN")
        /\ HasEvent(last[c].events, "GLOSS")
        /\ last[c].hand_out.label = "A"

\* C21: a frame that passes the density and span checks while the connection
\* has no snapshot of its own (its first such frame, or the first one after a
\* frame of its own that failed a check) is passed to the hand classifier.
C21_NoSnapshotAlwaysClassifies ==
    \A c \in Conns :
        (last[c].seen /\ last[c].wide /\ story[c].own_before = Absent)
        => last[c].hand_out # NotInvoked

\* C22: after a frame that passed the density and span checks the snapshot is
\* that frame's hand landmarks; and whenever a connection that has sent a
\* frame finds a snapshot, it is the hand block of its own latest frame that
\* passed the checks, with no failing frame of its own since.
C22_SnapshotIsLatestValidFrame ==
    \A c \in Conns :
        /\ (last[c].seen /\ last[c].wide) => last[c].prev_end = Some(last[c].hands)
        /\ (last[c].seen /\ pc[c] = "reading" /\ previous_hand_landmarks # Absent)
           => previous_hand_landmarks = story[c].own

\* C23: in the events sent on a connection, every TONE comes directly after a
\* GLOSS of that connection: after the GLOSS of the same frame, or first on
\* its frame when the last event sent before it was a GLOSS.
C23_ToneDirectlyFollowsGloss ==
    \A c \in Conns :
        \A k \in 1..Len(last[c].events) :
            last[c].events[k].type = "TONE"
            => IF k > 1 THEN last[c].events[k - 1].type = "GLOSS"
                        ELSE story[c].tail_before = "GLOSS"

\* C24: between frames and after the end of a stream, however it ended,
\* _last_gloss_yielded is false; and on every frame that was not cancelled
\* classify_face is invoked exactly when a GLOSS was emitted on it.
C24_FlagConsumedAfterOneFrame ==
    /\ last_gloss_yielded = FALSE
    /\ \A c \in Conns :
        (last[c].seen /\ last[c].status # "aborted")
        => (HasEvent(last[c].events, "GLOSS") <=> last[c].face_out # NotInvoked)

\* C25: a check that returns True leaves hands_down_start as it found it, so
\* that, with no reset and the wrist kept low, every following check returns
\* True as well.
C25_DetectionDoesNotReset ==
    probe.op = "check"
    => /\ probe.ret => (hands_down_start # Absent /\ hands_down_start = probe.start_before)
       /\ (probe.held_before /\ IsDown(probe.hands)) => probe.ret

\* a second detection in a row, with no reset between the two
C25_RepeatedDetectionWitness ==
    /\ probe.op = "check"
    /\ probe.held_before
    /\ probe.ret

\* C26: a check of fewer than 3 values, or of a wrist at or above the line
\* (y <= 0.9), returns False and clears the timer; a check of a low wrist with
\* no timer running returns False and starts the timer at the current time.
C26_UpFrameRestartsDwell ==
    probe.op = "check"
    => /\ (Len(probe.hands) < 3 \/ WristY(probe.hands) <= threshold_y)
          => (~probe.ret /\ hands_down_start = Absent)
       /\ (IsDown(probe.hands) /\ probe.start_before = Absent)
          => (~probe.ret /\ hands_down_start = Some(probe.at))

\* a wrist exactly on the threshold cleared a running timer
C26_TimerClearedWitness ==
    /\ probe.op = "check"
    /\ probe.start_before # Absent
    /\ Len(probe.hands) >= 3
    /\ WristY(probe.hands) = threshold_y
    /\ hands_down_start = Absent

\* C27: a block that reaches the second hand's wrist (Python index 64) counts
\* as down exactly when the first wrist (index 1) or the second (index 64) is
\* below the line (y > 0.9); a shorter block counts as down exactly when the
\* first wrist is.  A block counts as down when check leaves a timer running.
C27_LowerWristDecides ==
    (probe.op = "check" /\ Len(probe.hands) >= 3)
    => (hands_down_start # Absent
        <=> \/ probe.hands[2] > threshold_y
            \/ (Len(probe.hands) > 64 /\ probe.hands[65] > threshold_y))

\* two hands, the first wrist up and the second down: the timer runs
C27_SecondWristDownWitness ==
    /\ probe.op = "check"
    /\ Len(probe.hands) = 2 * HAND_SIZE
    /\ probe.hands[2] <= threshold_y
    /\ probe.hands[65] > threshold_y
    /\ hands_down_start # Absent

\* C28: every event emitted on a frame obeys the rule of its type: a GLOSS
\* carries the confidence classify_hands returned on that frame, at least
\* 0.90; a TONE carries the non-empty label and the confidence classify_face
\* returned on that frame, at least 0.80; a HANDS_DOWN carries the label
\* "hands_down" and the confidence 1.0.
C28_EventConfidenceRules ==
    \A c \in Conns :
        \A k \in 1..Len(last[c].events) :
            \E e \in {last[c].events[k]} :
                /\ e.type = "GLOSS"
                   => /\ last[c].hand_out # NotInvoked
                      /\ e.confidence = last[c].hand_out.confidence
                      /\ e.confidence >= CONFIDENCE_THRESHOLD
                /\ e.type = "TONE"
                   => /\ Truthy(e.label)
                      /\ last[c].face_out # NotInvoked
                      /\ e.label = last[c].face_out.label
                      /\ e.confidence = last[c].face_out.confidence
                      /\ e.confidence >= TONE_THRESHOLD
                /\ e.type = "HANDS_DOWN"
                   => (e.label = "hands_down" /\ e.confidence = HANDS_DOWN_CONFIDENCE)

\* C29: the gloss buffer never holds more than 5 entries, and an append puts
\* the new entry last behind the entries already there, in their order, less
\* the oldest one when there were 5.
C29_BufferKeepsLastFive ==
    /\ Len(recent_gloss_detections) <= BUFFER_KEEP
    /\ \A c \in Conns :
        last[c].appended
        => /\ Len(last[c].buf_after) >= 1
           /\ Len(last[c].buf_after) <= BUFFER_KEEP
           /\ last[c].buf_after =
                Append(IF Len(last[c].buf_before) = BUFFER_KEEP
                       THEN Tail(last[c].buf_before) ELSE last[c].buf_before,
                       last[c].buf_after[Len(last[c].buf_after)])

\* an append on a buffer of 5 whose oldest entry differs from the new one
C29_EvictionWitness ==
    /\ last[1].appended
    /\ Len(last[1].buf_before) = BUFFER_KEEP
    /\ last[1].buf_before[1] # last[1].buf_after[Len(last[1].buf_after)]

\* C30: a frame on which classify_hands is invoked and returns no label or a
\* confidence below 0.90 leaves the gloss buffer as it was and emits no GLOSS;
\* and a frame appends to the buffer only if its motion gate passed and
\* classify_hands returned a confidence of at least 0.90 on it.
C30_OnlyConfidentPredictionsAppend ==
    \A c \in Conns :
        last[c].seen
        => /\ (/\ last[c].hand_out # NotInvoked
               /\ ~last[c].hand_out.raises
               /\ (~Truthy(last[c].hand_out.label)
                   \/ last[c].hand_out.confidence < CONFIDENCE_THRESHOLD))
              => /\ ~last[c].appended
                 /\ last[c].buf_end = last[c].buf_before
                 /\ ~HasEvent(last[c].events, "GLOSS")
           /\ last[c].appended
              => /\ last[c].moved
                 /\ last[c].hand_out # NotInvoked
                 /\ last[c].hand_out.confidence >= CONFIDENCE_THRESHOLD

\* C31: translate never raises; it makes at most 2 attempts at the cloud call;
\* it returns the source "Cloud (Gemini)" exactly when an attempt succeeded and
\* otherwise the result of the local rules with the source "Offline (Local)";
\* and the tone it returns is the tone it was given.
C31_TranslateAlwaysReturns ==
    /\ call.pc # "raised"
    /\ call.attempts <= 2
    /\ call.cloud_calls <= 2
    /\ call.pc = "returned"
       => /\ call.result[1].tone = call.tone
          /\ call.result[1].source = "Cloud (Gemini)" <=> call.succeeded
          /\ ~call.succeeded
             => /\ call.result[1].source = "Offline (Local)"
                /\ call.result[1].english = call_local_rules(call.glosses, call.tone)[1]
                /\ call.result[1].filipino = call_local_rules(call.glosses, call.tone)[2]

\* the cloud failed twice and the local rules answered a negative sentence
C31_FallbackAfterTwoFailuresWitness ==
    /\ call.pc = "returned"
    /\ call.has_model
    /\ call.cloud_calls = 2
    /\ call.result[1].source = "Offline (Local)"
    /\ call.tone = "/negative"
    /\ call.result[1].english = [words |-> <<"Eat", "not", "you">>, end |-> "."]
    /\ call.result[1].filipino = [words |-> <<"EAT", "ikaw">>, end |-> "."]

\* C32: in one connection served without interruption the gloss buffer holds
\* at most 2 entries between frames: an append never brings it past 3 entries,
\* an append that brings it to 3 ends in an empty buffer on the same frame, and
\* no append finds 5 entries, so the oldest entry is never evicted.
C32_BufferBelowThreeBetweenFrames ==
    /\ Len(recent_gloss_detections) <= 2
    /\ last[1].appended
       => /\ Len(last[1].buf_before) <= 2
          /\ Len(last[1].buf_before) + 1 <= BUFFER_KEEP
          /\ last[1].buf_after = Append(last[1].buf_before,
                                        last[1].buf_after[Len(last[1].buf_after)])
          /\ Len(last[1].buf_after) = 3 => last[1].buf_end = <<>>

\* a third entry whose window was inconsistent: no GLOSS, buffer cleared
C32_InconsistentWindowClearedWitness ==
    /\ pc[1] = "reading"
    /\ last[1].appended
    /\ Len(last[1].buf_after) = 3
    /\ ~HasEvent(last[1].events, "GLOSS")
    /\ last[1].buf_end = <<>>
    /\ recent_gloss_detections = <<>>

\* C33: a frame whose hand count is 0 leaves _previous_hand_landmarks as it
\* was, while a frame with hands that fails the density or the span check
\* clears it; so a valid frame that comes right after frames without hands and
\* equals the valid frame before them is found static and is not classified.
C33_NoHandsFrameKeepsSnapshot ==
    \A c \in Conns :
        /\ (last[c].seen /\ hand_count(last[c].hands) = 0)
           => last[c].prev_end = last[c].prev_before
        /\ (last[c].checked /\ last[c].hand_count > 0 /\ ~last[c].wide)
           => last[c].prev_end = Absent
        /\ (last[c].wide /\ story[c].rested
            /\ story[c].own_before = Some(last[c].hands))
           => /\ last[c].prev_before = Some(last[c].hands)
              /\ ~last[c].moved
              /\ last[c].hand_out = NotInvoked

\* a valid frame, a frame without hands, the same valid frame again: static
C33_StaticAfterGapWitness ==
    /\ frame_count[1] = 3
    /\ last[1].wide
    /\ story[1].rested
    /\ story[1].own_before = Some(last[1].hands)
    /\ ~last[1].moved
    /\ last[1].hand_out = NotInvoked

====
